---- MODULE Spec2Model ----
(***************************************************************************)
(* Model of examples/generic/python-requests.py: one invocation of the    *)
(* script, from the argument checks of main() through the single          *)
(* requests.post() of send_voice_otp() to the process exit.               *)
(*                                                                         *)
(* A Python str is a sequence of tokens.  Run-time inputs (arguments,      *)
(* response fields) are sequences of single characters; a literal of the   *)
(* source is kept as one token.  None is a sequence no str can equal.      *)
(***************************************************************************)
EXTENDS Integers, Sequences, FiniteSets, TLC

VARIABLES argv, environ, pc, otp_code, posted, reply, outcome, stdout, exit_status

vars == <<argv, environ, pc, otp_code, posted, reply, outcome, stdout, exit_status>>

---------------------------------------------------------------------------
(* Bounds of the model *)

\* phones carry 0..MaxTail characters after the first digit
MaxTail == 15
\* caller-supplied codes have 0..MaxCodeLen digits
MaxCodeLen == 9
\* random.randint is sampled at NumSamples+1 evenly spaced points and at its top
NumSamples == 3

(* Constants of the program *)
OtpLo == 100000
OtpHi == 999999
MinMoreDigits == 9
MaxMoreDigits == 14
PostTimeout == 30

---------------------------------------------------------------------------
(* Python values *)

None == <<"NoneType">>
Absent == <<"<absent>">>
Truthy(x) == x # None /\ x # <<>>

Rep(c, n) == [i \in 1..n |-> c]

DigitChars == <<"0", "1", "2", "3", "4", "5", "6", "7", "8", "9">>
AsciiDigits == {DigitChars[i] : i \in 1..10}
\* characters of Unicode category Nd outside ASCII (here ARABIC-INDIC DIGIT THREE)
UnicodeDigits == {"U+0663"}

\* str(n) for n >= 0
RECURSIVE str_int(_)
str_int(n) ==
    IF n < 10 THEN <<DigitChars[n + 1]>>
    ELSE str_int(n \div 10) \o <<DigitChars[(n % 10) + 1]>>

\* str(x) as an f-string renders it: None gives "None", a str itself
fstr(x) == IF x = None THEN <<"None">> ELSE x

\* a parsed JSON object: every key of Keys maps to its value or to Absent
Keys == {"call_id", "status", "code", "message", "error"}
EmptyDict == [k \in Keys |-> Absent]
MkDict(cid, st, cd, msg, err) ==
    [k \in Keys |-> CASE k = "call_id" -> cid
                      [] k = "status" -> st
                      [] k = "code" -> cd
                      [] k = "message" -> msg
                      [] k = "error" -> err]
\* dict.get(k)
dict_get(d, k) == IF d[k] = Absent THEN None ELSE d[k]

---------------------------------------------------------------------------
(* Pure functions of the script *)

\* the \d class of a str pattern: any Unicode decimal digit
re_digit(c) == c \in AsciiDigits \cup UnicodeDigits

\* $ without re.MULTILINE: at the end, or just before a newline that ends the string
re_dollar(s, pos) ==
    \/ pos = Len(s)
    \/ pos = Len(s) - 1 /\ s[Len(s)] = "\n"

\* re.match(r"^\+[1-9]\d{9,14}$", phone)
re_match_phone(phone) ==
    /\ Len(phone) >= 2
    /\ phone[1] = "+"
    /\ phone[2] \in AsciiDigits \ {"0"}
    /\ \E k \in MinMoreDigits..MaxMoreDigits :
          /\ Len(phone) >= 2 + k
          /\ \A i \in 3..(2 + k) : re_digit(phone[i])
          /\ re_dollar(phone, 2 + k)

\* the values random.randint(100000, 999999) is sampled at
RandInts ==
    {OtpLo + k * ((OtpHi - OtpLo) \div NumSamples) : k \in 0..NumSamples} \cup {OtpHi}

\* generate_otp drawing from 0..999999
generate_otp_from_zero == {str_int(r) : r \in {0, OtpHi}}

\* generate_otp drawing four-digit codes
generate_otp_four_digits == {str_int(r) : r \in {OtpLo \div 100, OtpHi \div 100}}

\* generate_otp(): the set of its possible results
generate_otp == {str_int(r) : r \in RandInts}

\* the caller's code ignored
effective_code_always_generated(code, g) == g

\* code or generate_otp(), g being what generate_otp() would return
effective_code(code, g) == IF Truthy(code) THEN code ELSE g

\* the check of API_SECRET left out
config_error_gateway_only(gateway_url, api_secret) ==
    IF ~Truthy(gateway_url)
    THEN <<"GATEWAY_URL", " environment variable is required">>
    ELSE None

\* the missing-configuration check: the ValueError text, or None
config_error(gateway_url, api_secret) ==
    IF ~Truthy(gateway_url)
    THEN <<"GATEWAY_URL", " environment variable is required">>
    ELSE IF ~Truthy(api_secret)
    THEN <<"API_SECRET", " environment variable is required">>
    ELSE None

\* the arguments of requests.post
post_request(gateway_url, api_secret, phone, code) ==
    [url |-> gateway_url \o <<"/send-otp">>,
     json |-> [phone |-> phone, code |-> code, secret |-> api_secret],
     content_type |-> "application/json",
     timeout |-> PostTimeout]

\* the two fields swapped
api_error_text_swapped(error) ==
    <<"API Error: ">> \o fstr(dict_get(error, "error")) \o <<" (">>
        \o fstr(dict_get(error, "message")) \o <<")">>

\* f"API Error: {error.get('message')} ({error.get('error')})"
api_error_text(error) ==
    <<"API Error: ">> \o fstr(dict_get(error, "message")) \o <<" (">>
        \o fstr(dict_get(error, "error")) \o <<")">>

\* {"code": otp_code, **body}: the keys of body win
merge_result(code, body) ==
    [k \in Keys |-> IF body[k] # Absent THEN body[k]
                    ELSE IF k = "code" THEN code ELSE Absent]

Returned(d) == [raised |-> FALSE, exc |-> "", text |-> <<>>, value |-> d]
Raised(e, t) == [raised |-> TRUE, exc |-> e, text |-> t, value |-> EmptyDict]
NoOutcome == [raised |-> FALSE, exc |-> "pending", text |-> <<>>, value |-> EmptyDict]

\* send_voice_otp after requests.post: r is what the call gave
after_post(r, code) ==
    IF r.exc # "" THEN Raised(r.exc, <<>>)
    ELSE IF r.body.parse = "invalid" THEN Raised("JSONDecodeError", <<>>)
    ELSE IF ~r.ok
    THEN IF r.body.parse = "object"
         THEN Raised("HTTPError", api_error_text(r.body.obj))
         ELSE Raised("AttributeError", <<>>)
    ELSE IF r.body.parse = "object"
         THEN Returned(merge_result(code, r.body.obj))
         ELSE Raised("TypeError", <<>>)

\* the except branch without its sys.exit(1)
report_no_exit_code(o) ==
    IF o.raised
    THEN [line |-> [text |-> <<"Failed: ">> \o o.text, obj |-> EmptyDict], status |-> 0]
    ELSE [line |-> [text |-> <<"Success: ">>, obj |-> o.value], status |-> 0]

\* the try/except of main: the line printed and the exit status
report(o) ==
    IF o.raised
    THEN [line |-> [text |-> <<"Failed: ">> \o o.text, obj |-> EmptyDict], status |-> 1]
    ELSE [line |-> [text |-> <<"Success: ">>, obj |-> o.value], status |-> 0]

---------------------------------------------------------------------------
(* Inputs *)

ProgName == <<"python-requests.py">>

Phones ==
    {pre \o <<first>> \o Rep("5", n) \o suf :
        pre \in {<<>>, <<"+">>}, first \in {"0", "1"}, n \in 0..MaxTail,
        suf \in {<<>>, <<"x">>, <<"\n">>, <<"U+0663">>}}

CodeArgs == {Rep("7", n) : n \in 0..MaxCodeLen} \cup {<<"a", "b", "c">>}

PhonesWithCode == {<<"+", "1">> \o Rep("5", 10), <<"+", "1">> \o Rep("5", 10) \o <<"\n">>,
                   <<"1">> \o Rep("5", 10)}

ArgLists ==
    {<<ProgName>>}
        \cup {<<ProgName, p>> : p \in Phones}
        \cup {<<ProgName, p, c>> : p \in PhonesWithCode, c \in CodeArgs}

EnvValues == {None, <<>>}

Environs ==
    [GATEWAY_URL : EnvValues \cup {<<"https://gw.example">>},
     API_SECRET : EnvValues \cup {<<"s3cret">>}]

Objects ==
    {MkDict(cid, st, cd, msg, err) :
        cid \in {Absent, <<"abc123">>},
        st \in {Absent, <<"queued">>},
        cd \in {Absent, Rep("0", 6)},
        msg \in {Absent, None, <<"invalid secret">>},
        err \in {Absent, <<"AUTH_FAILED">>}}

Bodies ==
    {[parse |-> "object", obj |-> d] : d \in Objects}
        \cup {[parse |-> "array", obj |-> EmptyDict], [parse |-> "invalid", obj |-> EmptyDict]}

Replies ==
    {[exc |-> "", ok |-> ok, body |-> b] : ok \in BOOLEAN, b \in Bodies}
        \cup {[exc |-> e, ok |-> FALSE, body |-> [parse |-> "invalid", obj |-> EmptyDict]] :
                e \in {"ConnectionError", "Timeout"}}

NoReply == [exc |-> "pending", ok |-> FALSE, body |-> [parse |-> "invalid", obj |-> EmptyDict]]

---------------------------------------------------------------------------
(* The state machine *)

Init ==
    /\ argv \in ArgLists
    /\ environ \in Environs
    /\ pc = "main"
    /\ otp_code = None
    /\ posted = <<>>
    /\ reply = NoReply
    /\ outcome = NoOutcome
    /\ stdout = <<>>
    /\ exit_status = <<>>

Line(t) == [text |-> t, obj |-> EmptyDict]

Exit(lines, status) ==
    /\ stdout' = stdout \o lines
    /\ exit_status' = <<status>>
    /\ pc' = "exit"

\* main whose format check prints the error and carries on
main_format_error_falls_through ==
    /\ pc = "main"
    /\ IF Len(argv) < 2
       THEN Exit(<<Line(<<"Usage: python python-requests.py <phone> [code]">>),
                   Line(<<"Example: python python-requests.py +14155551234">>)>>, 1)
       ELSE /\ stdout' = stdout
                    \o (IF ~re_match_phone(argv[2])
                        THEN <<Line(<<"Error: Phone must be in E.164 format (e.g., +14155551234)">>)>>
                        ELSE <<>>)
                    \o <<Line(<<"Sending OTP to ">> \o argv[2] \o <<"...">>)>>
            /\ pc' = "send_voice_otp"
            /\ UNCHANGED exit_status
    /\ UNCHANGED <<argv, environ, otp_code, posted, reply, outcome>>

\* main, up to the call of send_voice_otp
main ==
    /\ pc = "main"
    /\ IF Len(argv) < 2
       THEN Exit(<<Line(<<"Usage: python python-requests.py <phone> [code]">>),
                   Line(<<"Example: python python-requests.py +14155551234">>)>>, 1)
       ELSE IF ~re_match_phone(argv[2])
       THEN Exit(<<Line(<<"Error: Phone must be in E.164 format (e.g., +14155551234)">>)>>, 1)
       ELSE /\ stdout' = stdout \o <<Line(<<"Sending OTP to ">> \o argv[2] \o <<"...">>)>>
            /\ pc' = "send_voice_otp"
            /\ UNCHANGED exit_status
    /\ UNCHANGED <<argv, environ, otp_code, posted, reply, outcome>>

phone == argv[2]
code == IF Len(argv) > 2 THEN argv[3] ELSE None

\* send_voice_otp, up to and including the call of requests.post
send_voice_otp ==
    /\ pc = "send_voice_otp"
    /\ LET gateway_url == environ.GATEWAY_URL
           api_secret == environ.API_SECRET
           err == config_error(gateway_url, api_secret)
       IN  IF err # None
           THEN /\ outcome' = Raised("ValueError", err)
                /\ Exit(<<report(outcome').line>>, report(outcome').status)
                /\ UNCHANGED <<otp_code, posted>>
           ELSE \E g \in generate_otp :
                /\ otp_code' = effective_code(code, g)
                /\ posted' = Append(posted,
                                    post_request(gateway_url, api_secret, phone, otp_code'))
                /\ pc' = "requests.post"
                /\ UNCHANGED <<outcome, stdout, exit_status>>
    /\ UNCHANGED <<argv, environ, reply>>

\* a failed request posted again
post_returns_retrying ==
    /\ pc = "requests.post"
    /\ \E r \in Replies :
        /\ reply' = r
        /\ IF r.exc # "" \/ ~r.ok
           THEN /\ posted' = Append(posted, posted[1])
                /\ UNCHANGED <<pc, outcome, stdout, exit_status>>
           ELSE /\ outcome' = after_post(r, otp_code)
                /\ Exit(<<report(outcome').line>>, report(outcome').status)
                /\ UNCHANGED posted
    /\ UNCHANGED <<argv, environ, otp_code>>

\* requests.post returns or raises; send_voice_otp finishes and main reports
post_returns ==
    /\ pc = "requests.post"
    /\ \E r \in Replies :
        /\ reply' = r
        /\ outcome' = after_post(r, otp_code)
        /\ Exit(<<report(outcome').line>>, report(outcome').status)
    /\ UNCHANGED <<argv, environ, otp_code, posted>>

Next == main \/ send_voice_otp \/ post_returns

Spec == Init /\ [][Next]_vars

\* the script is sequential and requests.post is bounded by its timeout
FairSpec == Spec /\ WF_vars(Next)

---------------------------------------------------------------------------
(* Vocabulary of the properties *)

\* the three states of the specification's state machine
State ==
    CASE pc = "main" -> "validating"
      [] pc \in {"send_voice_otp", "requests.post"} -> "sending"
      [] pc = "exit" -> "done"

\* some printed line starts with t
Printed(t) == \E i \in 1..Len(stdout) : stdout[i].text[1] = t

FormatError == "Error: Phone must be in E.164 format (e.g., +14155551234)"
UsageLine == "Usage: python python-requests.py <phone> [code]"

\* main went on to call send_voice_otp
CalledSend == Printed("Sending OTP to ")

AllAsciiDigits(s) == \A i \in 1..Len(s) : s[i] \in AsciiDigits

\* '+', one digit 1-9, then 9 to 14 more digits, and nothing else
IsE164(s) ==
    /\ Len(s) \in (2 + MinMoreDigits)..(2 + MaxMoreDigits)
    /\ s[1] = "+"
    /\ s[2] \in AsciiDigits \ {"0"}
    /\ \A i \in 3..Len(s) : s[i] \in AsciiDigits

DigitVal(c) == CHOOSE d \in 0..9 : DigitChars[d + 1] = c

RECURSIVE int_of(_)
int_of(s) ==
    IF s = <<>> THEN 0 ELSE 10 * int_of(SubSeq(s, 1, Len(s) - 1)) + DigitVal(s[Len(s)])

\* the code field of the request that was posted
SentCode == posted[1].json.code

CodeGiven == Len(argv) > 2

SixToEightDigits(s) == Len(s) \in 6..8 /\ AllAsciiDigits(s)

---------------------------------------------------------------------------
(* C1: main calls send_voice_otp exactly for the phones of the form '+',   *)
(* a digit 1-9, 9 to 14 more digits and nothing else; every other phone    *)
(* is rejected with the format error and exit status 1 and no request is   *)
(* posted.                                                                  *)
C1_PhoneGate ==
    (pc # "main" /\ Len(argv) >= 2) =>
        IF IsE164(argv[2])
        THEN CalledSend
        ELSE /\ ~CalledSend
             /\ Printed(FormatError)
             /\ exit_status = <<1>>
             /\ posted = <<>>

(* C2: with GATEWAY_URL or API_SECRET unset, send_voice_otp fails with a   *)
(* configuration error that names a variable that is missing (unset or     *)
(* empty; API_SECRET only when GATEWAY_URL is there), no request is posted *)
(* and no code is generated.                                                *)
C2_ConfigMissing ==
    LET unset == {v \in {"GATEWAY_URL", "API_SECRET"} : environ[v] = None}
        missing == {v \in {"GATEWAY_URL", "API_SECRET"} : ~Truthy(environ[v])}
    IN  unset # {} =>
            /\ posted = <<>>
            /\ otp_code = None
            /\ pc # "requests.post"
            /\ (pc = "exit" /\ CalledSend) =>
                   /\ outcome.raised
                   /\ outcome.exc = "ValueError"
                   /\ outcome.text[1] \in missing
                   /\ outcome.text[1] = "API_SECRET" => Truthy(environ.GATEWAY_URL)
                   /\ Printed("Failed: ")

C2_Witness ==
    /\ pc = "exit"
    /\ CalledSend
    /\ Truthy(environ.GATEWAY_URL)
    /\ environ.API_SECRET = None
    /\ outcome.text[1] = "API_SECRET"

(* C3: on an ok response with a JSON object as body, the result is the     *)
(* body with code set to the effective code that was sent, also when the   *)
(* body has a code field of its own.                                        *)
C3_ResultCarriesSentCode ==
    (pc = "exit" /\ reply.exc = "" /\ reply.ok /\ reply.body.parse = "object") =>
        /\ ~outcome.raised
        /\ outcome.value =
              [k \in Keys |-> IF k = "code" THEN SentCode ELSE reply.body.obj[k]]

(* C4: the code in the request is the caller's code when one is given and  *)
(* non-empty; otherwise it is a string of exactly six digits whose value   *)
(* lies in 100000..999999.                                                  *)
C4_EffectiveCode ==
    posted # <<>> =>
        IF CodeGiven /\ argv[3] # <<>>
        THEN SentCode = argv[3]
        ELSE /\ Len(SentCode) = 6
             /\ AllAsciiDigits(SentCode)
             /\ int_of(SentCode) \in OtpLo..OtpHi

C4_Witness ==
    /\ posted # <<>>
    /\ CodeGiven
    /\ argv[3] = <<>>
    /\ int_of(SentCode) \in OtpLo..OtpHi

(* C5, as stated: whenever a code argument is given, the code sent is      *)
(* exactly that argument.                                                   *)
C5_AnyGivenCodeIsSent ==
    (posted # <<>> /\ CodeGiven) => SentCode = argv[3]

(* C5, amended: a code argument that is not the empty string is sent       *)
(* exactly as given, whatever its length and characters; an empty code     *)
(* argument is not sent, a generated code is.                               *)
C5_NonEmptyGivenCodeIsSent ==
    (posted # <<>> /\ CodeGiven) =>
        /\ otp_code = SentCode
        /\ argv[3] # <<>> => SentCode = argv[3]
        /\ argv[3] = <<>> => SentCode \in generate_otp

C5_Witness ==
    /\ posted # <<>>
    /\ CodeGiven
    /\ argv[3] = <<"a", "b", "c">>
    /\ SentCode = <<"a", "b", "c">>

(* C6: the exit status is 0 exactly when send_voice_otp returned a result  *)
(* and Success was printed with it; it is 1 after the usage text, after    *)
(* the format error and after any failure of the send operation, which is  *)
(* printed as Failed; Success and Failed are never both printed.           *)
C6_ExitStatus ==
    /\ pc # "exit" => exit_status = <<>>
    /\ ~(Printed("Success: ") /\ Printed("Failed: "))
    /\ pc = "exit" =>
        /\ exit_status \in {<<0>>, <<1>>}
        /\ exit_status = <<0>> <=>
              /\ outcome.exc = ""
              /\ ~outcome.raised
              /\ stdout[Len(stdout)] = [text |-> <<"Success: ">>, obj |-> outcome.value]
        /\ Len(argv) < 2 => exit_status = <<1>> /\ Printed(UsageLine)
        /\ Printed(FormatError) => exit_status = <<1>>
        /\ outcome.raised =>
              /\ exit_status = <<1>>
              /\ stdout[Len(stdout)].text = <<"Failed: ">> \o outcome.text
        /\ exit_status = <<1>> =>
              Printed(UsageLine) \/ Printed(FormatError) \/ Printed("Failed: ")

C6_Witness ==
    /\ pc = "exit"
    /\ exit_status = <<1>>
    /\ outcome.exc = "Timeout"
    /\ Printed("Failed: ")

(* C7: at most one request is posted, exactly one once an invocation with  *)
(* a valid phone and both configuration values set and non-empty has       *)
(* ended, whatever the request's outcome; the request goes to              *)
(* GATEWAY_URL/send-otp with phone, effective code and API_SECRET.         *)
C7_SinglePost ==
    /\ Len(posted) <= 1
    /\ (/\ pc \in {"requests.post", "exit"}
        /\ Len(argv) >= 2
        /\ IsE164(argv[2])
        /\ Truthy(environ.GATEWAY_URL)
        /\ Truthy(environ.API_SECRET)) => Len(posted) = 1
    /\ posted # <<>> =>
        /\ posted[1].url = environ.GATEWAY_URL \o <<"/send-otp">>
        /\ posted[1].json.phone = argv[2]
        /\ posted[1].json.code = otp_code
        /\ posted[1].json.secret = environ.API_SECRET
        /\ otp_code # None

C7_Witness ==
    /\ pc = "exit"
    /\ Len(posted) = 1
    /\ reply.exc = ""
    /\ ~reply.ok
    /\ IsE164(argv[2])

RenderField(v) == IF v \in {Absent, None} THEN <<"None">> ELSE v

C9_SentCodeSixToEightDigits ==
    posted # <<>> => SixToEightDigits(SentCode)

(* C9, amended: the code in the request is a numeric string of six digits  *)
(* when it was generated (no code argument, or an empty one); a non-empty  *)
(* code argument is sent unchecked, so the code sent is six to eight       *)
(* digits exactly when that argument is.                                    *)
C9_SentCodeFormat ==
    posted # <<>> =>
        IF Truthy(code)
        THEN SixToEightDigits(SentCode) <=> SixToEightDigits(code)
        ELSE Len(SentCode) = 6 /\ AllAsciiDigits(SentCode)

C9_Witness ==
    /\ posted # <<>>
    /\ CodeGiven
    /\ Len(argv[3]) = 9
    /\ ~SixToEightDigits(SentCode)

(* C10: an invocation moves validating -> sending -> done only: sending    *)
(* is entered from validating and only when the argument count and the     *)
(* phone format check pass, done is entered from validating or sending,    *)
(* nothing changes once done, no request is posted outside sending, and    *)
(* every invocation reaches done.                                           *)
C10_StateMachine ==
    /\ [][/\ State # State' =>
               <<State, State'>> \in {<<"validating", "sending">>,
                                       <<"validating", "done">>,
                                       <<"sending", "done">>}
          /\ State' = "sending" /\ State = "validating" =>
               Len(argv) >= 2 /\ re_match_phone(argv[2])
          /\ State = "done" => UNCHANGED vars
          /\ posted' # posted => State = "sending" /\ posted = <<>>]_vars
    /\ <>(State = "done")
    /\ (pc = "requests.post") ~> (State = "done")

C10_Witness ==
    /\ State = "done"
    /\ posted # <<>>
    /\ reply.exc = "Timeout"

====
